---- MODULE Spec2Model ----
(***************************************************************************)
(* Model of sigstickers/downloader.py: downloadPack (fetch a pack and fan  *)
(* its stickers out to a pool of writers) and convertPack (cache gate, fan *)
(* the raw files out to a pool of converters, count, write the ledger).    *)
(*                                                                         *)
(* A string is a sequence of tokens and a path a sequence of strings (its  *)
(* components), so that str.replace("webp", ...) acts on the whole path as *)
(* it does in the code.  No token other than "webp" contains the text      *)
(* webp, and no two adjacent tokens spell it.                              *)
(***************************************************************************)
EXTENDS Integers, Sequences, FiniteSets, TLC

VARIABLES
    cwd,        \* downloadPack's cwd argument (a path)
    dirs,       \* filesystem: the set of existing directories (paths)
    files,      \* filesystem: function from existing file paths to contents
    ledger,     \* cache ledger: function from pack titles to entries
    pc,         \* position of the calling thread
    packId,     \* downloadPack's packId argument
    pack,       \* the pack returned by client.get_pack
    swd,        \* sticker working directory (local of both stages)
    packName,   \* pack title (local of both stages)
    webpDir,    \* the raw directory (local of both stages)
    noCache,    \* convertPack's noCache argument
    failSet,    \* ids of the stickers whose write the filesystem refuses
    saves,      \* downloadPack's futures: sticker id -> status
    saveSeen,   \* futures as_completed has yielded in downloadPack
    convs,      \* convertPack's futures: raw file path -> status
    convSeen,   \* futures as_completed has yielded in convertPack
    converted,  \* convertPack's local counter
    total,      \* convertPack's local total
    files0,     \* history: the files when the current fan-out was submitted
    nCreate,    \* history: createConverted calls made by the current convertPack
    result,     \* how the last call gave control back
    session     \* the StickersClient session of downloadPack

vars == <<cwd, dirs, files, ledger, pc, packId, pack, swd, packName, webpDir,
          noCache, failSet, saves, saveSeen, convs, convSeen, converted,
          total, files0, nCreate, result, session>>

----------------------------------------------------------------------------
(* Bounds and program constants *)

MaxStickers == 2

MaxWorkers == 4

CacheVersion == 1

----------------------------------------------------------------------------
(* Strings and paths *)

Str(t) == <<t>>

EmptyFn == [x \in {} |-> x]

NoPath == << >>

opj(root, name) == Append(root, name)

Prefixes(path) == {SubSeq(path, 1, n) : n \in 1..Len(path)}

DirName(path) == SubSeq(path, 1, Len(path) - 1)

BaseName(path) == path[Len(path)]

ReplaceInStr(s, old, new) ==
    [j \in DOMAIN s |-> IF s[j] = old THEN new ELSE s[j]]

Replace(path, old, new) ==
    [i \in DOMAIN path |-> ReplaceInStr(path[i], old, new)]

\* a file name without its two-token extension (".", ext)
Stem(name) == SubSeq(name, 1, Len(name) - 2)

Put(fs, path, content) ==
    [p \in DOMAIN fs \cup {path} |-> IF p = path THEN content ELSE fs[p]]

ListDir(fs, dir) == {p \in DOMAIN fs : DirName(p) = dir}

----------------------------------------------------------------------------
(* The PackSource collaborator: what client.get_pack can return *)

IdStr(i) == <<"0", "1", "2", "3", "4">>[i + 1]

Glyph == Str("E")

\* image_data is <<kind, tag>>: the kind decides what the codec does with the
\* image ("anim": every format; "static": the GIF encoder rejects it; "bad":
\* it cannot be decoded), the tag tells the images apart

\* pack A: MaxStickers stickers, an animation at even ids and a still image
\* at odd ids
StickersA ==
    {[id |-> i, emoji |-> Glyph,
      image_data |-> <<IF i % 2 = 0 THEN "anim" ELSE "static", IdStr(i)>>] :
        i \in 0..(MaxStickers - 1)}

\* pack B shares A's title; its one sticker cannot be decoded
StickersB == {[id |-> 0, emoji |-> Glyph, image_data |-> <<"bad", "b">>]}

\* pack W: the title is the text webp
StickersW == {[id |-> 3, emoji |-> Glyph, image_data |-> <<"anim", "w">>]}

\* pack L: one sticker more than the pool has workers
StickersL ==
    {[id |-> i, emoji |-> Glyph, image_data |-> <<"static", IdStr(i)>>] :
        i \in 0..MaxWorkers}

\* pack Z: no sticker at all
StickersZ == {}

Catalogue ==
    [A |-> [title |-> Str("png"), stickers |-> StickersA],
     B |-> [title |-> Str("png"), stickers |-> StickersB],
     W |-> [title |-> Str("webp"), stickers |-> StickersW],
     L |-> [title |-> Str("large"), stickers |-> StickersL],
     Z |-> [title |-> Str("empty"), stickers |-> StickersZ]]

\* the packs the caller asks for: small packs, or the large and the empty one
PackIds == {"A", "B", "W"}

PoolPackIds == {"L", "Z"}

NoPack == [title |-> << >>, stickers |-> {}]

Ids(p) == {s.id : s \in p.stickers}

StickerOf(p, i) == CHOOSE s \in p.stickers : s.id = i

Cwds == {<<Str("cwd")>>}

----------------------------------------------------------------------------
(* Functions of downloader.py *)

\* os.makedirs(opj(root, directory), exist_ok=True): the directories after it
assureDirExists(ds, directory, root) == ds \cup Prefixes(opj(root, directory))

\* os.makedirs(path, exist_ok=existOk) raises: the path or one of its
\* ancestors is a file, or the path is a directory and existOk is false
MakeDirsRaises(ds, fs, path, existOk) ==
    \/ \E p \in Prefixes(path) : p \in DOMAIN fs
    \/ path \in ds /\ ~existOk

\* assureDirRaises for os.makedirs(fullPath), without exist_ok (a faulty
\* variant)
assureDirRaises_NoExistOk(ds, fs, directory, root) ==
    MakeDirsRaises(ds, fs, opj(root, directory), FALSE)

\* assureDirExists(directory, root) raises instead of returning
assureDirRaises(ds, fs, directory, root) ==
    MakeDirsRaises(ds, fs, opj(root, directory), TRUE)

\* demojize(emoji)[1:-1]: the name of a glyph without its colons; a text
\* that is no emoji comes back unchanged and loses its first and last letter
DemojizeInner(emoji) == IF emoji = Str("webp") THEN Str("eb") ELSE Str("N")

\* StickerPath with the sticker id left out of the file name (a faulty
\* variant)
StickerPath_NoId(sticker, path) ==
    opj(path, DemojizeInner(sticker.emoji) \o <<"+">> \o sticker.emoji
              \o <<".", "webp">>)

\* the path saveSticker writes to
StickerPath(sticker, path) ==
    opj(path, <<IdStr(sticker.id), "+">> \o DemojizeInner(sticker.emoji)
              \o <<"+">> \o sticker.emoji \o <<".", "webp">>)

RawContent(sticker) == <<"webp">> \o sticker.image_data

\* the files after saveSticker(sticker, path) succeeded
saveSticker(fs, sticker, path) ==
    Put(fs, StickerPath(sticker, path), RawContent(sticker))

\* PngPath with one output name for every sticker of the directory (a
\* faulty variant)
PngPath_Shared(inputFile) ==
    opj(DirName(Replace(inputFile, "webp", "png")), <<"sticker", ".", "png">>)

\* convertWithPIL: the two output paths
PngPath(inputFile) == Replace(inputFile, "webp", "png")

GifPath(inputFile) == Replace(inputFile, "webp", "gif")

\* Image.open(inputFile) succeeds
CanOpen(fs, inputFile) == inputFile \in DOMAIN fs /\ fs[inputFile][2] # "bad"

\* open(path, "wb") succeeds: the directory of the path exists
CanWrite(ds, path) == DirName(path) \in ds

\* img.save(..., save_all=True) raises ValueError for this source
GifRejects(fs, inputFile) == fs[inputFile][2] = "static"

----------------------------------------------------------------------------
(* The cache ledger (sigstickers/caching.py) *)

verifyConverted(name) ==
    /\ name \in DOMAIN ledger
    /\ ledger[name].version = CacheVersion

createConverted(led, name, data) ==
    [n \in DOMAIN led \cup {name} |-> IF n = name THEN data ELSE led[n]]

----------------------------------------------------------------------------
Init ==
    /\ cwd \in Cwds
    /\ dirs = Prefixes(cwd)
    /\ files = EmptyFn
    /\ ledger = EmptyFn
    /\ pc = "idle"
    /\ packId = "none"
    /\ pack = NoPack
    /\ swd = NoPath
    /\ packName = << >>
    /\ webpDir = NoPath
    /\ noCache = FALSE
    /\ failSet = {}
    /\ saves = EmptyFn
    /\ saveSeen = {}
    /\ convs = EmptyFn
    /\ convSeen = {}
    /\ converted = 0
    /\ total = 0
    /\ files0 = EmptyFn
    /\ nCreate = 0
    /\ result = "none"
    /\ session = "none"

fsVars == <<dirs, files, ledger>>

dlLocals == <<packId, pack, failSet, saves, saveSeen>>

cvLocals == <<noCache, convs, convSeen, converted, total, nCreate>>

Finished(futs) == {u \in DOMAIN futs : futs[u] \in {"done", "failed"}}

Running(futs) == {u \in DOMAIN futs : futs[u] \notin {"pending", "done", "failed"}}

\* WorkerFree for an executor that starts a thread for every submitted unit
\* (a faulty variant)
WorkerFree_Unbounded(futs) == TRUE

\* ThreadPoolExecutor(max_workers=4): a queued unit starts only while fewer
\* than max_workers units are being run
WorkerFree(futs) == Cardinality(Running(futs)) < MaxWorkers

----------------------------------------------------------------------------
(* downloadPack *)

SwdOf(root, name) == opj(opj(root, Str("downloads")), name)

\* the caller invokes downloadPack(packId, packKey, cwd); the session opens
DownloadCall(id) ==
    /\ pc = "idle"
    /\ pc' = "dl_open"
    /\ packId' = id
    /\ swd' = NoPath
    /\ packName' = << >>
    /\ result' = "none"
    /\ saves' = EmptyFn
    /\ session' = "open"
    /\ UNCHANGED <<cwd, fsVars, pack, webpDir, failSet, saveSeen, cvLocals, files0>>

\* client.get_pack returns the pack; packName is read from it
DlGetPack ==
    /\ pc = "dl_open"
    /\ pack' = Catalogue[packId]
    /\ packName' = Catalogue[packId].title
    /\ pc' = "dl_got"
    /\ UNCHANGED <<cwd, session, fsVars, packId, swd, webpDir, failSet, saves, saveSeen,
                   cvLocals, files0, result>>

\* client.get_pack raises: the session closes and the error reaches the caller
DlGetPackFails ==
    /\ pc = "dl_open"
    /\ pc' = "idle"
    /\ packId' = "none"
    /\ result' = "dl_source_error"
    /\ session' = "closed"
    /\ UNCHANGED <<cwd, fsVars, pack, failSet, saves, saveSeen, swd, packName,
                   webpDir, cvLocals, files0>>

\* DlCloseSession for a client that is not used as a context manager: the
\* session stays open (a faulty variant)
DlCloseSession_Leaks ==
    /\ pc = "dl_got"
    /\ pc' = "dl_mkdirs"
    /\ UNCHANGED <<cwd, session, fsVars, dlLocals, swd, packName, webpDir, cvLocals,
                   files0, result>>

\* the async with block ends: the session closes
DlCloseSession ==
    /\ pc = "dl_got"
    /\ pc' = "dl_mkdirs"
    /\ session' = "closed"
    /\ UNCHANGED <<cwd, fsVars, dlLocals, swd, packName, webpDir, cvLocals,
                   files0, result>>

\* swd = assureDirExists(packName, assureDirExists("downloads", cwd));
\* webpDir = assureDirExists("webp", swd)
DlMakeDirs ==
    /\ pc = "dl_mkdirs"
    /\ LET d1 == assureDirExists(dirs, Str("downloads"), cwd)
           d2 == assureDirExists(d1, packName, opj(cwd, Str("downloads")))
       IN /\ ~assureDirRaises(dirs, files, Str("downloads"), cwd)
          /\ ~assureDirRaises(d1, files, packName, opj(cwd, Str("downloads")))
          /\ ~assureDirRaises(d2, files, Str("webp"), SwdOf(cwd, packName))
    /\ swd' = SwdOf(cwd, packName)
    /\ webpDir' = opj(swd', Str("webp"))
    /\ dirs' = assureDirExists(
                   assureDirExists(
                       assureDirExists(dirs, Str("downloads"), cwd),
                       packName, opj(cwd, Str("downloads"))),
                   Str("webp"), swd')
    /\ pc' = "dl_submit"
    /\ UNCHANGED <<cwd, session, files, ledger, dlLocals, packName, cvLocals, files0, result>>

\* every sticker of the pack is submitted to the pool; the filesystem's
\* answer to each write (fs) is an input of the run
DlSubmit(fs) ==
    /\ pc = "dl_submit"
    /\ fs \subseteq Ids(pack)
    /\ failSet' = fs
    /\ saves' = [i \in Ids(pack) |-> "pending"]
    /\ saveSeen' = {}
    /\ files0' = files
    /\ pc' = "dl_pool"
    /\ UNCHANGED <<cwd, session, fsVars, packId, pack, swd, packName, webpDir, cvLocals, result>>

\* a free pool thread takes a queued write
DlWorkerStart(i) ==
    /\ i \in DOMAIN saves
    /\ saves[i] = "pending"
    /\ WorkerFree(saves)
    /\ saves' = [saves EXCEPT ![i] = "running"]
    /\ UNCHANGED <<cwd, session, fsVars, pc, packId, pack, swd, packName, webpDir, failSet,
                   saveSeen, cvLocals, files0, result>>

\* saveSticker runs: the file is written, or open/write raises
DlWorkerFinish(i) ==
    /\ i \in DOMAIN saves
    /\ saves[i] = "running"
    /\ IF i \in failSet
         THEN /\ saves' = [saves EXCEPT ![i] = "failed"]
              /\ UNCHANGED files
         ELSE /\ saves' = [saves EXCEPT ![i] = "done"]
              /\ files' = saveSticker(files, StickerOf(pack, i), webpDir)
    /\ UNCHANGED <<cwd, session, dirs, ledger, pc, packId, pack, swd, packName, webpDir,
                   failSet, saveSeen, cvLocals, files0, result>>

\* PoolDrained for shutdown(wait=False) (a faulty variant)
PoolDrained_NoWait(futs) == TRUE

\* ThreadPoolExecutor.__exit__ is shutdown(wait=True): it returns once every
\* submitted future has run
PoolDrained(futs) == Finished(futs) = DOMAIN futs

\* Exhausted for a loop that is left after its first future (a faulty
\* variant)
Exhausted_First(seen, futs) == seen # {} \/ DOMAIN futs = {}

\* as_completed ends once it has yielded every future it was given
Exhausted(seen, futs) == seen = DOMAIN futs

\* ResultRaises when the result of the future is not read (a faulty variant)
ResultRaises_Unread(status) == FALSE

\* i.result() re-raises the exception of a future that failed
ResultRaises(status) == status = "failed"

\* as_completed yields a finished future and i.result() returns
DlYield(i) ==
    /\ pc = "dl_pool"
    /\ i \in Finished(saves)
    /\ i \notin saveSeen
    /\ ~ResultRaises(saves[i])
    /\ saveSeen' = saveSeen \cup {i}
    /\ UNCHANGED <<cwd, session, fsVars, pc, packId, pack, swd, packName, webpDir, failSet,
                   saves, cvLocals, files0, result>>

\* as_completed yields a failed future and i.result() raises its exception,
\* which leaves the loop and the with block
DlYieldRaises(i) ==
    /\ pc = "dl_pool"
    /\ i \in Finished(saves)
    /\ i \notin saveSeen
    /\ ResultRaises(saves[i])
    /\ saveSeen' = saveSeen \cup {i}
    /\ pc' = "dl_unwind"
    /\ UNCHANGED <<cwd, session, fsVars, packId, pack, swd, packName, webpDir, failSet,
                   saves, cvLocals, files0, result>>

\* as_completed is exhausted: the with block ends normally
DlLoopEnd ==
    /\ pc = "dl_pool"
    /\ Exhausted(saveSeen, saves)
    /\ pc' = "dl_shutdown"
    /\ UNCHANGED <<cwd, session, fsVars, dlLocals, swd, packName, webpDir, cvLocals,
                   files0, result>>

\* the executor's __exit__ returns, on the normal path
DlShutdown ==
    /\ pc = "dl_shutdown"
    /\ PoolDrained(saves)
    /\ pc' = "dl_done"
    /\ UNCHANGED <<cwd, session, fsVars, dlLocals, swd, packName, webpDir, cvLocals,
                   files0, result>>

\* the executor's __exit__ returns, with the exception pending
DlUnwind ==
    /\ pc = "dl_unwind"
    /\ PoolDrained(saves)
    /\ pc' = "dl_exc"
    /\ UNCHANGED <<cwd, session, fsVars, dlLocals, swd, packName, webpDir, cvLocals,
                   files0, result>>

\* return swd, packName
DlReturn ==
    /\ pc = "dl_done"
    /\ pc' = "idle"
    /\ result' = "dl_returned"
    /\ packId' = "none"
    /\ pack' = NoPack
    /\ webpDir' = NoPath
    /\ failSet' = {}
    /\ saveSeen' = {}
    /\ files0' = EmptyFn
    /\ UNCHANGED <<cwd, session, fsVars, saves, swd, packName, cvLocals>>

\* the write's exception leaves downloadPack: nothing is returned
DlRaise ==
    /\ pc = "dl_exc"
    /\ pc' = "idle"
    /\ result' = "dl_write_error"
    /\ packId' = "none"
    /\ pack' = NoPack
    /\ swd' = NoPath
    /\ packName' = << >>
    /\ webpDir' = NoPath
    /\ failSet' = {}
    /\ saveSeen' = {}
    /\ files0' = EmptyFn
    /\ UNCHANGED <<cwd, session, fsVars, saves, cvLocals>>

----------------------------------------------------------------------------
(* convertPack *)

\* the caller passes downloadPack's result on: convertPack(swd, packName, nc)
ConvertCall(nc) ==
    /\ pc = "idle"
    /\ result = "dl_returned"
    /\ pc' = "cv_check"
    /\ noCache' = nc
    /\ result' = "none"
    /\ UNCHANGED <<cwd, session, fsVars, dlLocals, swd, packName, webpDir, convs, convSeen,
                   converted, total, files0, nCreate>>

\* CacheHit without the noCache test (a faulty variant)
CacheHit_IgnoresNoCache(nc, name) == verifyConverted(name)

\* CacheHit with the noCache test inverted (a faulty variant)
CacheHit_Inverted(nc, name) == nc /\ verifyConverted(name)

\* if not noCache and verifyConverted(packName)
CacheHit(nc, name) == ~nc /\ verifyConverted(name)

\* the cache gate returns at once
CvSkip ==
    /\ pc = "cv_check"
    /\ CacheHit(noCache, packName)
    /\ pc' = "idle"
    /\ result' = "cv_skipped"
    /\ noCache' = FALSE
    /\ UNCHANGED <<cwd, session, fsVars, dlLocals, swd, packName, webpDir, convs, convSeen,
                   converted, total, files0, nCreate>>

\* the cache gate lets the pass run; the three directories are assured
CvMakeDirs ==
    /\ pc = "cv_check"
    /\ ~CacheHit(noCache, packName)
    /\ LET d1 == assureDirExists(dirs, Str("webp"), swd)
           d2 == assureDirExists(d1, Str("png"), swd)
       IN /\ ~assureDirRaises(dirs, files, Str("webp"), swd)
          /\ ~assureDirRaises(d1, files, Str("png"), swd)
          /\ ~assureDirRaises(d2, files, Str("gif"), swd)
    /\ webpDir' = opj(swd, Str("webp"))
    /\ dirs' = assureDirExists(
                   assureDirExists(
                       assureDirExists(dirs, Str("webp"), swd),
                       Str("png"), swd),
                   Str("gif"), swd)
    /\ pc' = "cv_submit"
    /\ UNCHANGED <<cwd, session, files, ledger, dlLocals, swd, packName, cvLocals, files0, result>>

\* converted = 0; stickers = listdir(webpDir); total = len(stickers); every
\* sticker is submitted to the pool
CvSubmit ==
    /\ pc = "cv_submit"
    /\ converted' = 0
    /\ total' = Cardinality(ListDir(files, webpDir))
    /\ convs' = [f \in ListDir(files, webpDir) |-> "pending"]
    /\ convSeen' = {}
    /\ files0' = files
    /\ pc' = "cv_pool"
    /\ UNCHANGED <<cwd, session, fsVars, dlLocals, swd, packName, webpDir, noCache, nCreate, result>>

\* a free pool thread takes a queued conversion
CvWorkerStart(f) ==
    /\ f \in DOMAIN convs
    /\ convs[f] = "pending"
    /\ WorkerFree(convs)
    /\ convs' = [convs EXCEPT ![f] = "running"]
    /\ UNCHANGED <<cwd, session, fsVars, pc, dlLocals, swd, packName, webpDir, noCache,
                   convSeen, converted, total, files0, nCreate, result>>

PngContent(fs, inputFile) == <<"png", fs[inputFile][2], fs[inputFile][3]>>

GifContent(fs, inputFile) == <<"gif", fs[inputFile][2], fs[inputFile][3]>>

\* img = Image.open(inputFile); img.save(inputFile.replace("webp", "png")):
\* an exception of either ends the unit
CvSavePng(f) ==
    /\ f \in DOMAIN convs
    /\ convs[f] = "running"
    /\ IF CanOpen(files, f) /\ CanWrite(dirs, PngPath(f))
         THEN /\ files' = Put(files, PngPath(f), PngContent(files, f))
              /\ convs' = [convs EXCEPT ![f] = "gif"]
         ELSE /\ convs' = [convs EXCEPT ![f] = "failed"]
              /\ UNCHANGED files
    /\ UNCHANGED <<cwd, session, dirs, ledger, pc, dlLocals, swd, packName, webpDir, noCache,
                   convSeen, converted, total, files0, nCreate, result>>

\* what img.save(inputFile.replace("webp", "gif"), ...) does: the file is
\* opened first (an OSError is not caught), then the encoder may raise the
\* ValueError that convertWithPIL catches
GifOutcome(ds, fs, inputFile) ==
    IF ~CanWrite(ds, GifPath(inputFile)) THEN "fatal"
    ELSE IF GifRejects(fs, inputFile) THEN "rejected"
    ELSE "saved"

\* AfterGif without the except clause: the ValueError ends the unit (a
\* faulty variant)
AfterGif_Uncaught(outcome) == IF outcome = "saved" THEN "done" ELSE "failed"

\* the status of a unit after the try/except around the GIF save
AfterGif(outcome) == IF outcome = "fatal" THEN "failed" ELSE "done"

\* the files after one whole run of convertWithPIL(inputFile), by itself
convertWithPIL(fs, ds, inputFile) ==
    IF ~(CanOpen(fs, inputFile) /\ CanWrite(ds, PngPath(inputFile))) THEN fs
    ELSE LET withPng == Put(fs, PngPath(inputFile), PngContent(fs, inputFile))
         IN IF GifOutcome(ds, withPng, inputFile) = "saved"
              THEN Put(withPng, GifPath(inputFile), GifContent(withPng, inputFile))
              ELSE withPng

CvSaveGif(f) ==
    /\ f \in DOMAIN convs
    /\ convs[f] = "gif"
    /\ convs' = [convs EXCEPT ![f] = AfterGif(GifOutcome(dirs, files, f))]
    /\ files' = IF GifOutcome(dirs, files, f) = "saved"
                  THEN Put(files, GifPath(f), GifContent(files, f))
                  ELSE files
    /\ UNCHANGED <<cwd, session, dirs, ledger, pc, dlLocals, swd, packName, webpDir, noCache,
                   convSeen, converted, total, files0, nCreate, result>>

\* CountYielded for an increment that overlaps another one and writes back
\* the value both of them read (a faulty variant)
CountYielded_LostUpdate(c, status) == IF c = 0 THEN 1 ELSE c

\* converted += 1, for a future as_completed yielded (its result is not read)
CountYielded(c, status) == c + 1

\* CvResultRaises for a loop body that calls the future's result() (a faulty
\* variant)
CvResultRaises_Read(status) == status = "failed"

\* the body of convertPack's as_completed loop raises: it never does, the
\* loop variable is _ and the future's result() is not called
CvResultRaises(status) == FALSE

\* as_completed yields a finished future; the loop body counts it
CvYield(f) ==
    /\ pc = "cv_pool"
    /\ f \in Finished(convs)
    /\ f \notin convSeen
    /\ convSeen' = convSeen \cup {f}
    /\ IF CvResultRaises(convs[f])
         THEN /\ pc' = "cv_unwind"
              /\ UNCHANGED converted
         ELSE /\ converted' = CountYielded(converted, convs[f])
              /\ UNCHANGED pc
    /\ UNCHANGED <<cwd, session, fsVars, dlLocals, swd, packName, webpDir, noCache,
                   convs, total, files0, nCreate, result>>

\* as_completed is exhausted: the with block ends
CvLoopEnd ==
    /\ pc = "cv_pool"
    /\ Exhausted(convSeen, convs)
    /\ pc' = "cv_shutdown"
    /\ UNCHANGED <<cwd, session, fsVars, dlLocals, swd, packName, webpDir, cvLocals,
                   files0, result>>

\* the executor's __exit__ returns
CvShutdown ==
    /\ pc = "cv_shutdown"
    /\ PoolDrained(convs)
    /\ pc' = "cv_report"
    /\ UNCHANGED <<cwd, session, fsVars, dlLocals, swd, packName, webpDir, cvLocals,
                   files0, result>>

\* the data convertPack hands to createConverted
ConvertedData(name, dir, c, t) ==
    [version |-> 1,
     info |-> [packName |-> name, swd |-> dir],
     converted |-> [converted |-> c, total |-> t]]

\* CvCreateConverted for a convertPack that records a pass only when it had
\* files to convert (a faulty variant)
CvCreateConverted_SkipsEmpty ==
    /\ pc = "cv_report"
    /\ ledger' = IF total = 0 THEN ledger
                 ELSE createConverted(ledger, packName,
                                      ConvertedData(packName, swd, converted, total))
    /\ nCreate' = IF total = 0 THEN nCreate ELSE nCreate + 1
    /\ pc' = "cv_done"
    /\ UNCHANGED <<cwd, session, dirs, files, dlLocals, swd, packName, webpDir, noCache,
                   convs, convSeen, converted, total, files0, result>>

\* createConverted(packName, data=...), once the pool has shut down
CvCreateConverted ==
    /\ pc = "cv_report"
    /\ ledger' = createConverted(ledger, packName,
                                 ConvertedData(packName, swd, converted, total))
    /\ nCreate' = nCreate + 1
    /\ pc' = "cv_done"
    /\ UNCHANGED <<cwd, session, dirs, files, dlLocals, swd, packName, webpDir, noCache,
                   convs, convSeen, converted, total, files0, result>>

\* convertPack returns
CvReturn ==
    /\ pc = "cv_done"
    /\ pc' = "idle"
    /\ result' = "cv_returned"
    /\ webpDir' = NoPath
    /\ noCache' = FALSE
    /\ convs' = EmptyFn
    /\ convSeen' = {}
    /\ converted' = 0
    /\ total' = 0
    /\ files0' = EmptyFn
    /\ nCreate' = 0
    /\ UNCHANGED <<cwd, session, fsVars, dlLocals, swd, packName>>

----------------------------------------------------------------------------
Next ==
    \/ \E id \in PackIds : DownloadCall(id)
    \/ DlGetPack
    \/ DlGetPackFails
    \/ DlCloseSession
    \/ DlMakeDirs
    \/ \E fs \in SUBSET Ids(pack) : DlSubmit(fs)
    \/ \E i \in DOMAIN saves : DlWorkerStart(i)
    \/ \E i \in DOMAIN saves : DlWorkerFinish(i)
    \/ \E i \in DOMAIN saves : DlYield(i)
    \/ \E i \in DOMAIN saves : DlYieldRaises(i)
    \/ DlLoopEnd
    \/ DlShutdown
    \/ DlUnwind
    \/ DlReturn
    \/ DlRaise
    \/ \E nc \in BOOLEAN : ConvertCall(nc)
    \/ CvSkip
    \/ CvMakeDirs
    \/ CvSubmit
    \/ \E f \in DOMAIN convs : CvWorkerStart(f)
    \/ \E f \in DOMAIN convs : CvSavePng(f)
    \/ \E f \in DOMAIN convs : CvSaveGif(f)
    \/ \E f \in DOMAIN convs : CvYield(f)
    \/ CvLoopEnd
    \/ CvShutdown
    \/ CvCreateConverted
    \/ CvReturn

Spec == Init /\ [][Next]_vars

\* the write failures tried on the large pack: none, or the first sticker's
PoolFailSets == {{}, {0}}

\* the same program, called on the large and on the empty pack
NextPool ==
    \/ \E id \in PoolPackIds : DownloadCall(id)
    \/ DlGetPack
    \/ DlGetPackFails
    \/ DlCloseSession
    \/ DlMakeDirs
    \/ \E fs \in PoolFailSets : DlSubmit(fs)
    \/ \E i \in DOMAIN saves : DlWorkerStart(i)
    \/ \E i \in DOMAIN saves : DlWorkerFinish(i)
    \/ \E i \in DOMAIN saves : DlYield(i)
    \/ \E i \in DOMAIN saves : DlYieldRaises(i)
    \/ DlLoopEnd
    \/ DlShutdown
    \/ DlUnwind
    \/ DlReturn
    \/ DlRaise
    \/ \E nc \in BOOLEAN : ConvertCall(nc)
    \/ CvSkip
    \/ CvMakeDirs
    \/ CvSubmit
    \/ \E f \in DOMAIN convs : CvWorkerStart(f)
    \/ \E f \in DOMAIN convs : CvSavePng(f)
    \/ \E f \in DOMAIN convs : CvSaveGif(f)
    \/ \E f \in DOMAIN convs : CvYield(f)
    \/ CvLoopEnd
    \/ CvShutdown
    \/ CvCreateConverted
    \/ CvReturn

SpecPool == Init /\ [][NextPool]_vars

----------------------------------------------------------------------------
(* Properties *)

DlPcs == {"dl_open", "dl_got", "dl_mkdirs", "dl_submit", "dl_pool",
          "dl_shutdown", "dl_unwind", "dl_done", "dl_exc"}

CvPcs == {"cv_check", "cv_mkdirs", "cv_submit", "cv_pool", "cv_shutdown",
          "cv_report", "cv_done"}

\* the raw directory of a working directory, and the file a raw file's
\* primary-format equivalent is expected at: <swd>/png/<base>.png
RawDirOf(dir) == opj(dir, Str("webp"))

ExpectedPng(dir, rawFile) ==
    opj(opj(dir, Str("png")), Stem(BaseName(rawFile)) \o <<".", "png">>)

\* the units of the current pass whose conversion ended without an exception
\* leaving convertWithPIL
Succeeded(futs) == {u \in DOMAIN futs : futs[u] = "done"}

\* C1: a convertPack call with noCache false and verifyConverted(packName)
\* true returns at once: it creates no directory, writes no file, submits no
\* file to the codec, does not call createConverted, and leaves filesystem
\* and ledger as they were. The call itself (entering convertPack) changes
\* neither.
C1_CacheHitTouchesNothing ==
    [][/\ (pc = "idle" /\ pc' = "cv_check") => UNCHANGED fsVars
       /\ (pc = "cv_check" /\ ~noCache /\ verifyConverted(packName))
            => /\ pc' = "idle"
               /\ result' = "cv_skipped"
               /\ UNCHANGED <<dirs, files, ledger>>
               /\ convs' = EmptyFn
               /\ nCreate' = 0]_vars

\* C1 witness: a call was skipped for a title whose earlier pass wrote its
\* ledger entry, with raw files present
C1_Witness ==
    /\ pc = "idle"
    /\ result = "cv_skipped"
    /\ packName \in DOMAIN ledger
    /\ ledger[packName].converted.total > 0
    /\ ListDir(files, RawDirOf(swd)) # {}

\* C2: whenever convertPack returned early because of the cache, every file
\* in the pack's raw directory has its primary-format equivalent.
C2_NoFalsePositive ==
    (pc = "idle" /\ result = "cv_skipped")
        => \A f \in ListDir(files, RawDirOf(swd)) :
               ExpectedPng(swd, f) \in DOMAIN files

\* C3: the recorded converted is the number of units that ended without a
\* fatal error and total the number of units attempted.
C3_ConvertedCountsSuccesses ==
    pc = "cv_done"
        => /\ ledger[packName].converted.converted = Cardinality(Succeeded(convs))
           /\ ledger[packName].converted.total = Cardinality(DOMAIN convs)

\* C4: when every raw file of a pass can be decoded and its primary-format
\* file written (K of the N units are rejected by the GIF encoder, K from 0
\* to N), convertPack reaches its end, the primary-format image of every
\* unit is on disk, a unit the GIF encoder rejected ends without an
\* exception, and the ledger records converted = N and total = N.
C4_GifRejectionNotFatal ==
    (/\ pc = "cv_done"
     /\ \A f \in DOMAIN convs :
           /\ CanOpen(files0, f)
           /\ CanWrite(dirs, PngPath(f)))
        => /\ \A f \in DOMAIN convs :
                GifOutcome(dirs, files0, f) = "rejected" => convs[f] = "done"
           /\ \A f \in DOMAIN convs :
                \E p \in DOMAIN files : files[p] = PngContent(files0, f)
           /\ ledger[packName].converted =
                [converted |-> Cardinality(DOMAIN convs),
                 total |-> Cardinality(DOMAIN convs)]

\* C4 witness: a pass over two files ended, one of them rejected by the GIF
\* encoder (it has no GIF) and one not
C4_Witness ==
    /\ pc = "cv_done"
    /\ Succeeded(convs) = DOMAIN convs
    /\ \E f \in DOMAIN convs : GifPath(f) \notin DOMAIN files
    /\ \E f \in DOMAIN convs : GifPath(f) \in DOMAIN files

\* C5: in a convertPack call the cache does not skip, createConverted is
\* called exactly once, after every submitted unit has finished, with
\* version 1, the pack title, the working directory and the final counts;
\* the ledger never changes at any other moment.
C5_LedgerWrittenOnceAtEnd ==
    /\ [](/\ pc \in (CvPcs \ {"cv_done"}) => nCreate = 0
          /\ pc = "cv_done" => nCreate = 1)
    /\ [][(ledger' # ledger \/ nCreate' > nCreate)
            => /\ pc = "cv_report"
               /\ \A f \in DOMAIN convs : convs[f] \in {"done", "failed"}
               /\ converted = Cardinality(DOMAIN convs)
               /\ total = Cardinality(DOMAIN convs)
               /\ DOMAIN ledger' = DOMAIN ledger \cup {packName}
               /\ \A n \in DOMAIN ledger \ {packName} : ledger'[n] = ledger[n]
               /\ ledger'[packName] =
                    [version |-> 1,
                     info |-> [packName |-> packName, swd |-> swd],
                     converted |-> [converted |-> converted, total |-> total]]
               /\ nCreate' = 1]_vars

\* C5 witness: the ledger entry was written at the end of a pass in which a
\* unit failed and another succeeded only in part (no GIF)
C5_Witness ==
    /\ pc = "cv_done"
    /\ nCreate = 1
    /\ packName \in DOMAIN ledger
    /\ \E f \in DOMAIN convs : convs[f] = "failed"
    /\ \E f \in DOMAIN convs : convs[f] = "done" /\ GifPath(f) \notin DOMAIN files

\* the raw directory of the pack being downloaded
PackRawDir == RawDirOf(SwdOf(cwd, pack.title))

\* C6 as claimed: after downloadPack returns, the raw directory holds exactly
\* N files, one per record, named by its sticker id and holding its bytes,
\* whatever ran before for the same title.
C6_ExactlyNFiles ==
    pc = "dl_done"
        => /\ Cardinality(ListDir(files, PackRawDir)) = Cardinality(pack.stickers)
           /\ \A s \in pack.stickers :
                \E p \in ListDir(files, PackRawDir) :
                    /\ BaseName(p)[1] = IdStr(s.id)
                    /\ files[p] = <<"webp">> \o s.image_data

\* C6 as amended: after downloadPack returns, the raw directory holds one
\* file per record, N distinct files, each named by its sticker id and
\* holding that record's bytes; beside them it holds the files it held
\* before the call and nothing else, so exactly N files when it held no
\* file under another name.
C6_OneFilePerRecord ==
    pc = "dl_done"
        => /\ \A s \in pack.stickers :
                /\ StickerPath(s, PackRawDir) \in DOMAIN files
                /\ BaseName(StickerPath(s, PackRawDir))[1] = IdStr(s.id)
                /\ files[StickerPath(s, PackRawDir)] = <<"webp">> \o s.image_data
           /\ Cardinality({StickerPath(s, PackRawDir) : s \in pack.stickers})
                = Cardinality(pack.stickers)
           /\ ListDir(files, PackRawDir)
                = ListDir(files0, PackRawDir)
                  \cup {StickerPath(s, PackRawDir) : s \in pack.stickers}

\* C6 witness: downloadPack is about to return for a pack of two records
\* whose raw directory holds a third file, left by an earlier run
C6_Witness ==
    /\ pc = "dl_done"
    /\ Cardinality(pack.stickers) >= 1
    /\ Cardinality(ListDir(files, PackRawDir)) > Cardinality(pack.stickers)

\* C7: when a write of the fan-out fails, downloadPack never reaches its
\* return statement; the exception leaves it with no (swd, packName) handed
\* to the caller, and the files the other units wrote, like those that were
\* there before, stay on disk: the raise removes nothing.
C7_WriteFailureIsFatal ==
    /\ [](/\ pc \in {"dl_shutdown", "dl_done"} => failSet = {}
          /\ result = "dl_returned" => \A i \in DOMAIN saves : saves[i] = "done"
          /\ pc = "dl_exc"
               => /\ failSet # {}
                  /\ \A p \in DOMAIN files0 : p \in DOMAIN files
                  /\ \A i \in DOMAIN saves :
                       saves[i] = "done"
                         => /\ StickerPath(StickerOf(pack, i), webpDir) \in DOMAIN files
                            /\ files[StickerPath(StickerOf(pack, i), webpDir)]
                                 = RawContent(StickerOf(pack, i)))
    /\ [][pc = "dl_exc"
            => /\ pc' = "idle"
               /\ result' = "dl_write_error"
               /\ swd' = NoPath
               /\ packName' = << >>
               /\ UNCHANGED <<dirs, files, ledger>>]_vars

\* C7 witness: downloadPack has raised after one write failed and another
\* wrote its file, which is on disk
C7_Witness ==
    /\ pc = "idle"
    /\ result = "dl_write_error"
    /\ \E i \in DOMAIN saves : saves[i] = "failed"
    /\ \E i \in DOMAIN saves : saves[i] = "done"
    /\ ListDir(files, RawDirOf(SwdOf(cwd, Str("png")))) # {}

\* C8: outside the with block of downloadPack (before the pool exists, after
\* the block was left by its end or by an exception, after downloadPack gave
\* control back, during convertPack) no write is pending or running; when
\* the exception of a failed write surfaces, every other submitted write has
\* run to its end: none was cancelled.
C8_PoolDrainedBeforeControlReturns ==
    /\ pc \notin {"dl_pool", "dl_shutdown", "dl_unwind"}
         => \A i \in DOMAIN saves : saves[i] \in {"done", "failed"}
    /\ pc = "dl_exc"
         => \A i \in DOMAIN saves \ failSet :
              /\ saves[i] = "done"
              /\ StickerPath(StickerOf(pack, i), webpDir) \in DOMAIN files

\* C8 witness: the exception surfaces although as_completed had not yet
\* yielded a write that succeeded: that write ran during the shutdown
C8_Witness ==
    /\ pc = "dl_exc"
    /\ \E i \in DOMAIN saves : i \notin saveSeen /\ saves[i] = "done"

\* C9: every file in a png or gif directory has a raw file with the same
\* base name in the webp directory beside it.
C9_ConvertedHasRaw ==
    \A p \in DOMAIN files :
        BaseName(DirName(p)) \in {Str("png"), Str("gif")}
            => opj(RawDirOf(DirName(DirName(p))),
                   Stem(BaseName(p)) \o <<".", "webp">>) \in DOMAIN files

\* the files after the stickers of S were saved one after the other
RECURSIVE SeqSave(_, _, _)
SeqSave(fs, S, dir) ==
    IF S = {} THEN fs
    ELSE LET s == CHOOSE x \in S : TRUE
         IN SeqSave(saveSticker(fs, s, dir), S \ {s}, dir)

\* the files after the files of S were converted one after the other
RECURSIVE SeqConvert(_, _, _)
SeqConvert(fs, ds, S) ==
    IF S = {} THEN fs
    ELSE LET f == CHOOSE x \in S : TRUE
         IN SeqConvert(convertWithPIL(fs, ds, f), ds, S \ {f})

\* C10: when a fan-out has ended, the files on disk are those a run of its
\* units one after the other, in one fixed order, leaves, whatever the
\* interleaving of the pool threads was; convertPack's counts are both the
\* number of units; and when convertPack reports its counts no unit is
\* still pending or running.
C10_OutputIndependentOfOrder ==
    /\ pc \in {"dl_done", "dl_exc"}
         => files = SeqSave(files0, {s \in pack.stickers : s.id \notin failSet},
                            webpDir)
    /\ pc \in {"cv_report", "cv_done"}
         => /\ files = SeqConvert(files0, dirs, DOMAIN convs)
            /\ \A f \in DOMAIN convs : convs[f] \in {"done", "failed"}
            /\ converted = Cardinality(DOMAIN convs)
            /\ total = Cardinality(DOMAIN convs)

\* C10 witness: a pass over two files or more is about to report its counts
\* and has written a primary-format file for each
C10_Witness ==
    /\ pc = "cv_report"
    /\ Cardinality(DOMAIN convs) >= 2
    /\ \A f \in DOMAIN convs : PngPath(f) \in DOMAIN files \ DOMAIN files0

\* C11: at the cache gate, convertPack returns at once exactly when noCache is
\* false and verifyConverted(packName) is true; in every other case, with
\* noCache true even though verifyConverted is true, the pass runs: every
\* file of the raw directory is submitted, every unit has finished when the
\* ledger is written, and the title's entry is overwritten with the counts
\* of this pass.
C11_BypassOnlyOnRequest ==
    /\ [](/\ pc \in {"cv_pool", "cv_shutdown", "cv_report", "cv_done"}
               => DOMAIN convs = ListDir(files0, RawDirOf(swd))
          /\ pc \in {"cv_report", "cv_done"}
               => \A f \in DOMAIN convs : convs[f] \in {"done", "failed"}
          /\ pc = "cv_done"
               => /\ packName \in DOMAIN ledger
                  /\ ledger[packName].converted
                       = [converted |-> Cardinality(ListDir(files0, RawDirOf(swd))),
                          total |-> Cardinality(ListDir(files0, RawDirOf(swd)))])
    /\ [][pc = "cv_check"
            => /\ (pc' = "idle") <=> (~noCache /\ verifyConverted(packName))
               /\ pc' = "idle" => result' = "cv_skipped"
               /\ pc' # "idle" => pc' = "cv_submit"]_vars

\* C11 witness: a pass requested with noCache true has run over a raw
\* directory that is not empty and is about to overwrite the entry an
\* earlier pass wrote for the title
C11_Witness ==
    /\ pc = "cv_report"
    /\ noCache
    /\ verifyConverted(packName)
    /\ DOMAIN convs # {}

\* the arguments assureDirExists is tried on: a directory name, under a
\* directory that exists or under one that does not exist yet
DirNames == {Str("downloads"), Str("webp"), Str("png"), Str("gif")}

DirRoots == dirs \cup {opj(d, Str("new")) : d \in dirs}

\* C12: assureDirExists(name, root) creates root/name and its missing
\* ancestors and removes nothing; a second call with the same arguments does
\* not raise and leaves the directories as the first call left them. In the
\* program, the assureDirExists calls of a downloadPack whose raw directory
\* exists already leave the filesystem unchanged and downloadPack goes on.
C12_AssureDirIdempotent ==
    /\ [](\A name \in DirNames : \A root \in DirRoots :
            ~assureDirRaises(dirs, files, name, root)
              => LET once == assureDirExists(dirs, name, root)
                 IN /\ Prefixes(opj(root, name)) \subseteq once
                    /\ dirs \subseteq once
                    /\ once \ dirs \subseteq Prefixes(opj(root, name))
                    /\ ~assureDirRaises(once, files, name, root)
                    /\ assureDirExists(once, name, root) = once)
    /\ [][(pc = "dl_mkdirs" /\ RawDirOf(SwdOf(cwd, packName)) \in dirs)
            => /\ pc' = "dl_submit"
               /\ webpDir' = RawDirOf(SwdOf(cwd, packName))
               /\ UNCHANGED <<dirs, files>>]_vars

\* C12 witness: downloadPack has assured its three directories a second
\* time: the raw directory held files of an earlier run already
C12_Witness ==
    /\ pc = "dl_submit"
    /\ webpDir \in dirs
    /\ ListDir(files, webpDir) # {}

\* C13: in convertPack every file listed in the raw directory is submitted,
\* an exception of one unit never leaves the as_completed loop (convertPack
\* does not raise because of it), the units that can be converted are
\* converted whatever happened to the others, and the code after the pool is
\* reached only when every submitted unit has run to completion or failure.
C13_UnitFailureIsContained ==
    /\ pc # "cv_unwind"
    /\ pc \in {"cv_pool", "cv_shutdown", "cv_report", "cv_done"}
         => DOMAIN convs = ListDir(files0, RawDirOf(swd))
    /\ pc \in {"cv_report", "cv_done"}
         => /\ \A f \in DOMAIN convs : convs[f] \in {"done", "failed"}
            /\ convSeen = DOMAIN convs
            /\ \A f \in DOMAIN convs :
                 CanOpen(files0, f) /\ CanWrite(dirs, PngPath(f))
                   => /\ convs[f] # "failed" \/ ~CanWrite(dirs, GifPath(f))
                      /\ PngPath(f) \in DOMAIN files
    /\ result = "cv_returned" => pc \in {"idle", "dl_open"} \cup DlPcs

\* C13 witness: convertPack has reported after a run in which one unit failed
\* and another one was converted
C13_Witness ==
    /\ pc = "cv_done"
    /\ \E f \in DOMAIN convs : convs[f] = "failed"
    /\ \E f \in DOMAIN convs : convs[f] = "done"

\* C14: `converted` changes only in the as_completed loop of the thread that
\* runs convertPack, by one for each future yielded, and no step of a pool
\* worker changes it; so in every interleaving the counter equals the number
\* of futures yielded so far, and the entry written to the ledger records
\* converted = total = the number of units submitted.
C14_CounterOwnedByCoordinator ==
    /\ [](/\ pc \in {"cv_pool", "cv_shutdown", "cv_report", "cv_done"}
               => /\ converted = Cardinality(convSeen)
                  /\ total = Cardinality(DOMAIN convs)
          /\ pc \in {"cv_report", "cv_done"}
               => /\ converted = Cardinality(Finished(convs))
                  /\ converted = total
          /\ pc = "cv_done"
               => /\ packName \in DOMAIN ledger
                  /\ ledger[packName].converted
                       = [converted |-> Cardinality(DOMAIN convs),
                          total |-> Cardinality(DOMAIN convs)])
    /\ [][/\ (pc = "cv_pool" /\ convs' # convs) => converted' = converted
          /\ converted' # converted
               => \/ /\ pc = "cv_pool"
                     /\ convs' = convs
                     /\ converted' = converted + 1
                     /\ Cardinality(convSeen') = Cardinality(convSeen) + 1
                  \/ pc \in {"cv_submit", "cv_done"}]_vars

\* C14 witness: two units ran in the pool, one of them failed, and the
\* ledger records 2 of 2
C14_Witness ==
    /\ pc = "cv_done"
    /\ Cardinality(DOMAIN convs) = 2
    /\ \E f \in DOMAIN convs : convs[f] = "failed"
    /\ ledger[packName].converted = [converted |-> 2, total |-> 2]

\* C15: downloadPack calls get_pack with the session open and obtains the
\* pack only then; the session is closed in every later position of
\* downloadPack, so every directory creation and file write of downloadPack
\* happens with the session closed; when get_pack fails, downloadPack ends
\* with the source's error, the session closed, and the filesystem and the
\* ledger as they were when it was called.
C15_SessionBracketsGetPack ==
    /\ [](/\ pc = "dl_open" => session = "open"
          /\ pc \in DlPcs \ {"dl_open", "dl_got"} => session = "closed"
          /\ result = "dl_source_error" => session = "closed")
    /\ [][/\ (pc = "idle" /\ pc' = "dl_open")
               => session' = "open" /\ UNCHANGED fsVars
          /\ (pack' # pack /\ pack' # NoPack)
               => pc = "dl_open" /\ session = "open"
          /\ (pc \in DlPcs /\ (dirs' # dirs \/ files' # files))
               => session = "closed" /\ session' = "closed"
          /\ (pc = "dl_open" /\ pc' # "dl_got")
               => /\ pc' = "idle"
                  /\ result' = "dl_source_error"
                  /\ session' = "closed"
                  /\ UNCHANGED fsVars]_vars

\* C15 witness: get_pack failed, and the caller holds the source's error with
\* the session closed
C15_Witness ==
    /\ pc = "idle"
    /\ result = "dl_source_error"
    /\ session = "closed"

\* the file a raw file's animated-format equivalent is expected at:
\* <swd>/gif/<base>.gif
ExpectedGif(dir, rawFile) ==
    opj(opj(dir, Str("gif")), Stem(BaseName(rawFile)) \o <<".", "gif">>)

\* C16: for every raw file <swd>/webp/<base>.webp of the pass whose PNG was
\* saved, the PNG is the file <swd>/png/<base>.png, and when its GIF was saved
\* too, the GIF is the file <swd>/gif/<base>.gif, whatever text the working
\* directory and the base name contain.
C16_OutputsInOwnFormatDirs ==
    pc \in {"cv_pool", "cv_shutdown", "cv_report", "cv_done"}
      => \A f \in DOMAIN convs :
           /\ convs[f] \in {"gif", "done"}
                => /\ PngPath(f) = ExpectedPng(swd, f)
                   /\ ExpectedPng(swd, f) \in DOMAIN files
           /\ (convs[f] = "done" /\ ~GifRejects(files0, f))
                => /\ GifPath(f) = ExpectedGif(swd, f)
                   /\ ExpectedGif(swd, f) \in DOMAIN files

\* C17: at every moment at most 4 writes of downloadPack and at most 4
\* conversions of convertPack are being run, also when more than 4 units
\* were submitted and wait.
C17_AtMostFourRunning ==
    /\ Cardinality(Running(saves)) <= 4
    /\ Cardinality(Running(convs)) <= 4

\* C17 witness: five conversions were submitted; four are being run and the
\* fifth waits for a free worker
C17_Witness ==
    /\ pc = "cv_pool"
    /\ Cardinality(DOMAIN convs) = 5
    /\ Cardinality(Running(convs)) = 4
    /\ \E f \in DOMAIN convs : convs[f] = "pending"

\* C18: in a convertPack pass over an empty raw directory no conversion is
\* submitted and no file is written, the webp, png and gif directories of the
\* working directory exist, and when the pass reports, createConverted has
\* been called exactly once and the ledger entry of the title records
\* converted = 0 and total = 0.
C18_EmptyRawDirectory ==
    (/\ pc \in {"cv_pool", "cv_shutdown", "cv_report", "cv_done"}
     /\ ListDir(files0, RawDirOf(swd)) = {})
      => /\ convs = EmptyFn
         /\ files = files0
         /\ converted = 0 /\ total = 0
         /\ {opj(swd, Str("webp")), opj(swd, Str("png")), opj(swd, Str("gif"))}
              \subseteq dirs
         /\ pc \in {"cv_pool", "cv_shutdown", "cv_report"} => nCreate = 0
         /\ pc = "cv_done"
              => /\ nCreate = 1
                 /\ packName \in DOMAIN ledger
                 /\ ledger[packName].converted = [converted |-> 0, total |-> 0]

\* C18 witness: a pass over the empty raw directory of the empty pack has
\* reported
C18_Witness ==
    /\ pc = "cv_done"
    /\ packName = Str("empty")
    /\ ListDir(files, RawDirOf(swd)) = {}
    /\ DOMAIN convs = {}

====
